---- MODULE Spec2Model ----
(***************************************************************************)
(* Pixlet: the grid editing and history engine of src/src/App.vue.         *)
(*                                                                         *)
(* The reactive refs of the component are the variables.  Every handler of *)
(* the component is an operator from an editor state (a record with one    *)
(* field per ref) to the editor state it leaves, so that a handler which   *)
(* calls other handlers is the composition of their operators.  An action  *)
(* of the model is one event delivered to the component: it runs the whole *)
(* handler on the current state.                                           *)
(***************************************************************************)
EXTENDS Integers, Sequences, FiniteSets, TLC

VARIABLES
    gridWidth,      \* ref gridWidth
    gridHeight,     \* ref gridHeight
    grid,           \* ref grid: grid[row][col], rows 0..gridHeight-1, cols 0..gridWidth-1
    currentColor,   \* ref currentColor
    currentTool,    \* ref currentTool
    isDrawing,      \* ref isDrawing
    lastDrawnPos,   \* ref lastDrawnPos: Null or [row, col]
    brushSize,      \* ref brushSize
    hoveredCell,    \* ref hoveredCell: Null or [row, col]
    history,        \* ref history: sequence of grids; JS index i is history[i + 1]
    historyIndex,   \* ref historyIndex (0-based as in the source, -1 when empty)
    colorHistory,   \* ref colorHistory
    dialogVisible,  \* ref dialogVisible
    dialogType,     \* ref dialogType
    dialogTitle,    \* ref dialogTitle
    dialogMessage,  \* ref dialogMessage
    dialogInput,    \* ref dialogInput: the typed text, a sequence of characters
    dialogCallback, \* ref dialogCallback: which closure is installed, or "null"
    sharedEntries,  \* the positions in history whose row arrays are the very
                    \* arrays of the live grid (no copy in between): a write
                    \* grid[r][c] = x shows in those entries too
    obs             \* observer: what the last event was and what the editor
                    \* looked like when the current gesture or scenario began

progVars == <<gridWidth, gridHeight, grid, currentColor, currentTool, isDrawing,
              lastDrawnPos, brushSize, hoveredCell, history, historyIndex,
              colorHistory, dialogVisible, dialogType, dialogTitle, dialogMessage,
              dialogInput, dialogCallback, sharedEntries>>

vars == <<gridWidth, gridHeight, grid, currentColor, currentTool, isDrawing,
          lastDrawnPos, brushSize, hoveredCell, history, historyIndex,
          colorHistory, dialogVisible, dialogType, dialogTitle, dialogMessage,
          dialogInput, dialogCallback, sharedEntries, obs>>

-----------------------------------------------------------------------------
(* Program constants *)

CANVAS_SIZE == 640

MAX_HISTORY == 50

MAX_COLOR_HISTORY == 20

MIN_GRID_SIZE == 8

MAX_GRID_SIZE == 64

WHITE == "#FFFFFF"

BLACK == "#000000"

Tools == {"pencil", "eraser", "fill", "eyedropper"}

BrushSizes == {1, 2, 3, 4, 5}

Null == [null |-> TRUE]

Min(a, b) == IF a < b THEN a ELSE b

Max(a, b) == IF a > b THEN a ELSE b

Abs(a) == IF a < 0 THEN -a ELSE a

-----------------------------------------------------------------------------
(* The editor state as a record, and back *)

Cur ==
    [gridWidth |-> gridWidth, gridHeight |-> gridHeight, grid |-> grid,
     currentColor |-> currentColor, currentTool |-> currentTool,
     isDrawing |-> isDrawing, lastDrawnPos |-> lastDrawnPos,
     brushSize |-> brushSize, hoveredCell |-> hoveredCell,
     history |-> history, historyIndex |-> historyIndex,
     colorHistory |-> colorHistory, dialogVisible |-> dialogVisible,
     dialogType |-> dialogType, dialogTitle |-> dialogTitle,
     dialogMessage |-> dialogMessage, dialogInput |-> dialogInput,
     dialogCallback |-> dialogCallback, sharedEntries |-> sharedEntries]

Becomes(s) ==
    /\ gridWidth' = s.gridWidth
    /\ gridHeight' = s.gridHeight
    /\ grid' = s.grid
    /\ currentColor' = s.currentColor
    /\ currentTool' = s.currentTool
    /\ isDrawing' = s.isDrawing
    /\ lastDrawnPos' = s.lastDrawnPos
    /\ brushSize' = s.brushSize
    /\ hoveredCell' = s.hoveredCell
    /\ history' = s.history
    /\ historyIndex' = s.historyIndex
    /\ colorHistory' = s.colorHistory
    /\ dialogVisible' = s.dialogVisible
    /\ dialogType' = s.dialogType
    /\ dialogTitle' = s.dialogTitle
    /\ dialogMessage' = s.dialogMessage
    /\ dialogInput' = s.dialogInput
    /\ dialogCallback' = s.dialogCallback
    /\ sharedEntries' = s.sharedEntries

Starts(s) ==
    /\ gridWidth = s.gridWidth
    /\ gridHeight = s.gridHeight
    /\ grid = s.grid
    /\ currentColor = s.currentColor
    /\ currentTool = s.currentTool
    /\ isDrawing = s.isDrawing
    /\ lastDrawnPos = s.lastDrawnPos
    /\ brushSize = s.brushSize
    /\ hoveredCell = s.hoveredCell
    /\ history = s.history
    /\ historyIndex = s.historyIndex
    /\ colorHistory = s.colorHistory
    /\ dialogVisible = s.dialogVisible
    /\ dialogType = s.dialogType
    /\ dialogTitle = s.dialogTitle
    /\ dialogMessage = s.dialogMessage
    /\ dialogInput = s.dialogInput
    /\ dialogCallback = s.dialogCallback
    /\ sharedEntries = s.sharedEntries

-----------------------------------------------------------------------------
(* Arrays: copies and writes in place *)

\* g.map(row => [...row]): a new outer array of new row arrays, cell by cell
CopyOfGrid(g) == [r \in DOMAIN g |-> [c \in DOMAIN g[r] |-> g[r][c]]]

\* The writes grid.value[r][c] = x that turn the live grid into written: they
\* are made in the grid's row arrays, so every history entry made of those
\* same arrays shows them as well.
WriteGrid(s, written) ==
    IF s.sharedEntries = {}
    THEN [s EXCEPT !.grid = written]
    ELSE [s EXCEPT !.grid = written,
                   !.history = [i \in DOMAIN s.history |->
                                   IF i \in s.sharedEntries
                                   THEN written
                                   ELSE s.history[i]]]

\* The positions, after the first `dropped` entries are gone and only the
\* first `kept` were retained, of the entries shared with the live grid
SharedAfter(s, kept, dropped) ==
    { i - dropped : i \in { j \in s.sharedEntries : j > dropped /\ j <= kept } }

-----------------------------------------------------------------------------
(* Dialog state: showDialog, closeDialog *)

showDialog(s, type, title, message, callback) ==
    [s EXCEPT !.dialogType = type,
              !.dialogTitle = title,
              !.dialogMessage = message,
              !.dialogInput = <<>>,
              !.dialogCallback = callback,
              !.dialogVisible = TRUE]

closeDialog(s) ==
    [s EXCEPT !.dialogVisible = FALSE, !.dialogCallback = "null"]

-----------------------------------------------------------------------------
(* History: saveState, undo, redo, initializeGrid *)

\* saveState with historyIndex++ moved out of the else branch: the cursor
\* advances after an eviction too.
saveStateAdvancing(s) ==
    LET kept == SubSeq(s.history, 1, s.historyIndex + 1)
        pushed == Append(kept, s.grid)
    IN  IF Len(pushed) > MAX_HISTORY
        THEN [s EXCEPT !.history = Tail(pushed), !.historyIndex = @ + 1]
        ELSE [s EXCEPT !.history = pushed, !.historyIndex = @ + 1]

\* saveState without the slice: the entries after the cursor are kept and
\* the copy of the grid is pushed after them.
saveStateKeepingFuture(s) ==
    LET pushed == Append(s.history, s.grid)
    IN  IF Len(pushed) > MAX_HISTORY
        THEN [s EXCEPT !.history = Tail(pushed)]
        ELSE [s EXCEPT !.history = pushed, !.historyIndex = @ + 1]

\* history.slice(0, historyIndex + 1); push(copy of grid); then either
\* shift() (cursor untouched) or historyIndex++.
saveState(s) ==
    LET kept == SubSeq(s.history, 1, s.historyIndex + 1)
        pushed == Append(kept, CopyOfGrid(s.grid))
    IN  IF Len(pushed) > MAX_HISTORY
        THEN [s EXCEPT !.history = Tail(pushed),
                       !.sharedEntries = SharedAfter(s, Len(kept), 1)]
        ELSE [s EXCEPT !.history = pushed, !.historyIndex = @ + 1,
                       !.sharedEntries = SharedAfter(s, Len(kept), 0)]

\* undo reading history[historyIndex] before the decrement: the cursor moves
\* back but the grid is the entry it has just left.
undoStale(s) ==
    IF s.historyIndex > 0
    THEN [s EXCEPT !.historyIndex = @ - 1,
                   !.grid = s.history[s.historyIndex + 1]]
    ELSE s

\* undo installing history[historyIndex] itself, without .map(row => [...row]):
\* the live grid is then made of the entry's own row arrays.
undoSharingEntry(s) ==
    IF s.historyIndex > 0
    THEN [s EXCEPT !.historyIndex = @ - 1,
                   !.grid = s.history[(s.historyIndex - 1) + 1],
                   !.sharedEntries = {(s.historyIndex - 1) + 1}]
    ELSE s

\* historyIndex--; grid = history[historyIndex].map(row => [...row])
undo(s) ==
    IF s.historyIndex > 0
    THEN [s EXCEPT !.historyIndex = @ - 1,
                   !.grid = CopyOfGrid(s.history[(s.historyIndex - 1) + 1]),
                   !.sharedEntries = {}]
    ELSE s

\* redo that moves the cursor forward and leaves the grid as it is.
redoCursorOnly(s) ==
    IF s.historyIndex < Len(s.history) - 1
    THEN [s EXCEPT !.historyIndex = @ + 1]
    ELSE s

\* historyIndex++; grid = history[historyIndex].map(row => [...row])
redo(s) ==
    IF s.historyIndex < Len(s.history) - 1
    THEN [s EXCEPT !.historyIndex = @ + 1,
                   !.grid = CopyOfGrid(s.history[(s.historyIndex + 1) + 1]),
                   !.sharedEntries = {}]
    ELSE s

BlankGrid(h, w) == [r \in 0..(h - 1) |-> [c \in 0..(w - 1) |-> WHITE]]

\* initializeGrid without the reset of the history stack
initializeGridKeepingHistory(s) ==
    saveState([s EXCEPT !.grid = BlankGrid(s.gridHeight, s.gridWidth)])

initializeGrid(s) ==
    saveState([s EXCEPT !.grid = BlankGrid(s.gridHeight, s.gridWidth),
                        !.sharedEntries = {},
                        !.history = <<>>,
                        !.historyIndex = -1])

-----------------------------------------------------------------------------
(* Color history: addToColorHistory *)

\* addToColorHistory without the filter: the colour is put in front of the
\* list as it is
addToColorHistoryUnfiltered(s, color) ==
    LET added == <<color>> \o s.colorHistory
    IN  [s EXCEPT !.colorHistory = SubSeq(added, 1, Min(Len(added), MAX_COLOR_HISTORY))]

addToColorHistory(s, color) ==
    LET filtered == SelectSeq(s.colorHistory, LAMBDA c : c # color)
        added == <<color>> \o filtered
    IN  [s EXCEPT !.colorHistory =
            SubSeq(added, 1, Min(Len(added), MAX_COLOR_HISTORY))]

-----------------------------------------------------------------------------
(* Drawing: brush stamp, flood fill, drawPixel, drawLine *)

InGrid(s, row, col) ==
    row >= 0 /\ row < s.gridHeight /\ col >= 0 /\ col < s.gridWidth

\* The offset that centres even brushes toward the higher indices
BrushOffsetRoundedDown(size) == (size - 1) \div 2

\* const offset = Math.floor(brushSize / 2)
BrushOffset(size) == size \div 2

\* for (r = -offset; r < brushSize - offset; r++) for (c = ...): the cells
\* (row + r, col + c) that pass the in-grid test.
BrushCells(s, row, col) ==
    LET offset == BrushOffset(s.brushSize)
        span == (-offset)..(s.brushSize - offset - 1)
    IN  {cell \in {[row |-> row + r, col |-> col + c] : r \in span, c \in span} :
            InGrid(s, cell.row, cell.col)}

\* grid[newRow][newCol] = color for every cell of the brush
Stamp(s, row, col, color) ==
    LET cells == BrushCells(s, row, col)
    IN  WriteGrid(s,
            [r \in DOMAIN s.grid |->
                [c \in DOMAIN s.grid[r] |->
                    IF [row |-> r, col |-> c] \in cells
                    THEN color
                    ELSE s.grid[r][c]]])

\* floodFill without its last recursive call, the one to the right
FillNeighboursButRight(row, col) ==
    << [row |-> row - 1, col |-> col], [row |-> row + 1, col |-> col],
       [row |-> row, col |-> col - 1] >>

\* The four recursive calls of floodFill, in the order of the source.
FillNeighbours(row, col) ==
    << [row |-> row - 1, col |-> col], [row |-> row + 1, col |-> col],
       [row |-> row, col |-> col - 1], [row |-> row, col |-> col + 1] >>

\* floodFill is recursive and mutates grid in place.  Its execution is the
\* run of a machine m whose state is the editor state m.s reached so far and
\* the calls m.pending still to be made, the next one first: this is the
\* call stack of the recursion.  floodFillCall makes the next call: the three
\* early returns of the body, or the write followed by the four calls.
floodFillCall(m, targetColor, replacementColor) ==
    IF m.pending = <<>> THEN m
    ELSE LET row == Head(m.pending).row
             col == Head(m.pending).col
             return == [m EXCEPT !.pending = Tail(m.pending)]
         IN  IF targetColor = replacementColor THEN return
             ELSE IF row < 0 \/ row >= m.s.gridHeight \/ col < 0 \/ col >= m.s.gridWidth
                  THEN return
             ELSE IF m.s.grid[row][col] # targetColor THEN return
             ELSE [s |-> WriteGrid(m.s, [m.s.grid EXCEPT ![row][col] = replacementColor]),
                   pending |-> FillNeighbours(row, col) \o Tail(m.pending)]

TheOne(S) == CHOOSE x \in S : TRUE

RECURSIVE floodFillRun(_, _, _, _)
\* Up to 2^k calls made from m, stopping when none is pending.  The first
\* half's result is bound to a value before the second half starts, which
\* keeps the evaluation flat.
floodFillRun(m, k, targetColor, replacementColor) ==
    IF m.pending = <<>> THEN m
    ELSE IF k = 0 THEN floodFillCall(m, targetColor, replacementColor)
    ELSE TheOne({ floodFillRun(half, k - 1, targetColor, replacementColor) :
                    half \in {floodFillRun(m, k - 1, targetColor, replacementColor)} })

RECURSIVE Doublings(_)
\* The least k with 2^k >= n
Doublings(n) == IF n <= 1 THEN 0 ELSE 1 + Doublings((n + 1) \div 2)

\* Every cell is written at most once and every write makes four calls, so
\* the recursion makes at most 4 * cells + 1 calls.
floodFill(s, row, col, targetColor, replacementColor) ==
    floodFillRun([s |-> s, pending |-> <<[row |-> row, col |-> col]>>],
                 Doublings(4 * s.gridHeight * s.gridWidth + 1),
                 targetColor, replacementColor).s

\* An eraser branch that stamps white as the pencil stamps its colour,
\* colour history included
drawPixelEraserAsPencil(s, row, col) ==
    Stamp(addToColorHistory(s, WHITE), row, col, WHITE)

\* The eraser branch of drawPixel
drawPixelEraser(s, row, col) == Stamp(s, row, col, WHITE)

\* An eyedropper branch that takes the colour and keeps the tool
drawPixelEyedropperKeepingTool(s, row, col) ==
    [s EXCEPT !.currentColor = s.grid[row][col]]

\* The eyedropper branch of drawPixel
drawPixelEyedropper(s, row, col) ==
    [s EXCEPT !.currentColor = s.grid[row][col],
              !.currentTool = "pencil"]

drawPixel(s, row, col) ==
    IF ~InGrid(s, row, col) THEN s
    ELSE IF s.currentTool = "pencil"
         THEN Stamp(addToColorHistory(s, s.currentColor), row, col, s.currentColor)
    ELSE IF s.currentTool = "eraser"
         THEN drawPixelEraser(s, row, col)
    ELSE IF s.currentTool = "fill"
         THEN LET filled == floodFill(s, row, col, s.grid[row][col], s.currentColor)
              IN  saveState(addToColorHistory(filled, s.currentColor))
    ELSE IF s.currentTool = "eyedropper"
         THEN drawPixelEyedropper(s, row, col)
    ELSE s

\* The column test with the sign of dy dropped
StepsColUnsigned(e2, dy) == e2 > dy

\* if (e2 > -dy) { err -= dy; currentCol += sx }
StepsCol(e2, dy) == e2 > -dy

\* if (e2 < dx) { err += dx; currentRow += sy }
StepsRow(e2, dx) == e2 < dx

RECURSIVE LineFrom(_, _, _, _, _)
\* The cells the while (true) loop of drawLine passes to drawPixel, from
\* (currentRow, currentCol) on.  ln holds the loop's constants.  fuel counts
\* the iterations left before the loop is given up as not terminating; the
\* sequence then ends with Null.
LineFrom(ln, currentRow, currentCol, err, fuel) ==
    LET here == [row |-> currentRow, col |-> currentCol]
    IN  IF currentRow = ln.row1 /\ currentCol = ln.col1 THEN <<here>>
        ELSE IF fuel = 0 THEN <<here, Null>>
        ELSE LET e2 == 2 * err
                 errC == IF StepsCol(e2, ln.dy) THEN err - ln.dy ELSE err
                 nextCol == IF StepsCol(e2, ln.dy) THEN currentCol + ln.sx
                            ELSE currentCol
                 errR == IF StepsRow(e2, ln.dx) THEN errC + ln.dx ELSE errC
                 nextRow == IF StepsRow(e2, ln.dx) THEN currentRow + ln.sy
                            ELSE currentRow
             IN  <<here>> \o LineFrom(ln, nextRow, nextCol, errR, fuel - 1)

LineCells(row0, col0, row1, col1) ==
    LET dx == Abs(col1 - col0)
        dy == Abs(row1 - row0)
        sx == IF col0 < col1 THEN 1 ELSE -1
        sy == IF row0 < row1 THEN 1 ELSE -1
        ln == [dx |-> dx, dy |-> dy, sx |-> sx, sy |-> sy,
               row1 |-> row1, col1 |-> col1]
    IN  LineFrom(ln, row0, col0, dx - dy, 2 * (dx + dy) + 2)

RECURSIVE DrawCells(_, _)
\* drawPixel on each cell of the sequence in turn
DrawCells(s, cells) ==
    IF cells = <<>> THEN s
    ELSE IF Head(cells) = Null THEN s
    ELSE DrawCells(drawPixel(s, Head(cells).row, Head(cells).col), Tail(cells))

drawLine(s, row0, col0, row1, col1) ==
    DrawCells(s, LineCells(row0, col0, row1, col1))

startDrawing(s, row, col) ==
    drawPixel([s EXCEPT !.isDrawing = TRUE,
                        !.hoveredCell = Null,
                        !.lastDrawnPos = [row |-> row, col |-> col]],
              row, col)

\* stopDrawing without the isDrawing test: every mouseup records.
stopDrawingUnguarded(s) ==
    [saveState(s) EXCEPT !.isDrawing = FALSE, !.lastDrawnPos = Null]

\* stopDrawing that ends the gesture without the call of saveState
stopDrawingNotRecording(s) ==
    [s EXCEPT !.isDrawing = FALSE, !.lastDrawnPos = Null]

stopDrawing(s) ==
    LET saved == IF s.isDrawing THEN saveState(s) ELSE s
    IN  [saved EXCEPT !.isDrawing = FALSE, !.lastDrawnPos = Null]

-----------------------------------------------------------------------------
(* Pointer events: getCanvasCoordinates and the canvas handlers *)

\* A mouse event carries the pointer position relative to the canvas
\* rectangle (clientX - rect.left, clientY - rect.top) and the rectangle's
\* rendered size.  col = floor(x * scaleX / pixelSize) with
\* scaleX = CANVAS_SIZE / rect.width and pixelSize = CANVAS_SIZE / gridWidth
\* (the grid is square), which is floor(x * gridWidth / rect.width).
\* getCanvasCoordinates returning the cell before the clamp
getCanvasCoordinatesUnclamped(s, event) ==
    [row |-> (event.y * s.gridHeight) \div event.rectHeight,
     col |-> (event.x * s.gridWidth) \div event.rectWidth]

getCanvasCoordinates(s, event) ==
    LET col == (event.x * s.gridWidth) \div event.rectWidth
        row == (event.y * s.gridHeight) \div event.rectHeight
        clampedRow == Max(0, Min(s.gridHeight - 1, row))
        clampedCol == Max(0, Min(s.gridWidth - 1, col))
    IN  [row |-> clampedRow, col |-> clampedCol]

onCanvasMouseDown(s, event) ==
    LET coords == getCanvasCoordinates(s, event)
    IN  startDrawing(s, coords.row, coords.col)

PencilOrEraser(s) == s.currentTool = "pencil" \/ s.currentTool = "eraser"

\* onCanvasMouseMove without lastDrawnPos.value = coords: every line of a
\* drag is seeded from the cell of the mousedown.
onCanvasMouseMoveKeepingSeed(s, event) ==
    LET coords == getCanvasCoordinates(s, event)
    IN  IF event.buttons = 1
        THEN LET resumed == IF ~s.isDrawing /\ PencilOrEraser(s)
                            THEN [s EXCEPT !.isDrawing = TRUE]
                            ELSE s
             IN  IF resumed.isDrawing /\ PencilOrEraser(resumed)
                 THEN LET last == resumed.lastDrawnPos
                      IN  IF last # Null /\ (last.row # coords.row \/ last.col # coords.col)
                          THEN drawLine(resumed, last.row, last.col,
                                        coords.row, coords.col)
                          ELSE IF last = Null
                          THEN drawPixel(resumed, coords.row, coords.col)
                          ELSE resumed
                 ELSE resumed
        ELSE [s EXCEPT !.hoveredCell = coords]

onCanvasMouseMove(s, event) ==
    LET coords == getCanvasCoordinates(s, event)
    IN  IF event.buttons = 1
        THEN LET resumed == IF ~s.isDrawing /\ PencilOrEraser(s)
                            THEN [s EXCEPT !.isDrawing = TRUE]
                            ELSE s
             IN  IF resumed.isDrawing /\ PencilOrEraser(resumed)
                 THEN LET last == resumed.lastDrawnPos
                          drawn ==
                              IF last # Null /\ (last.row # coords.row \/ last.col # coords.col)
                              THEN drawLine(resumed, last.row, last.col,
                                            coords.row, coords.col)
                              ELSE IF last = Null
                              THEN drawPixel(resumed, coords.row, coords.col)
                              ELSE resumed
                      IN  [drawn EXCEPT !.lastDrawnPos = coords]
                 ELSE resumed
        ELSE [s EXCEPT !.hoveredCell = coords]

onCanvasMouseUp(s) == stopDrawing(s)

\* A mouseleave handler that forgets the last drawn cell
onCanvasMouseLeaveForgetting(s) ==
    [s EXCEPT !.hoveredCell = Null, !.lastDrawnPos = Null]

onCanvasMouseLeave(s) ==
    IF s.hoveredCell # Null THEN [s EXCEPT !.hoveredCell = Null] ELSE s

-----------------------------------------------------------------------------
(* Grid management: clearGrid, resizeGrid and the dialog buttons *)

\* parseInt(text) on a text given as a sequence of characters: leading white
\* space is skipped, an optional sign is read, a 0x or 0X prefix selects
\* radix 16, and the longest run of digits is converted; no digit at all is
\* NaN.  The result is [nan |-> BOOLEAN, value |-> Int].
WhiteSpace == {" ", "\t", "\n"}

DigitValue(ch) ==
    CASE ch = "0" -> 0 [] ch = "1" -> 1 [] ch = "2" -> 2 [] ch = "3" -> 3
      [] ch = "4" -> 4 [] ch = "5" -> 5 [] ch = "6" -> 6 [] ch = "7" -> 7
      [] ch = "8" -> 8 [] ch = "9" -> 9
      [] ch \in {"a", "A"} -> 10 [] ch \in {"b", "B"} -> 11
      [] ch \in {"c", "C"} -> 12 [] ch \in {"d", "D"} -> 13
      [] ch \in {"e", "E"} -> 14 [] ch \in {"f", "F"} -> 15
      [] OTHER -> 99

RECURSIVE SkipWhiteSpace(_)
SkipWhiteSpace(text) ==
    IF text # <<>> /\ Head(text) \in WhiteSpace
    THEN SkipWhiteSpace(Tail(text))
    ELSE text

RECURSIVE ParseDigits(_, _, _, _)
\* acc is [nan, value] for the digits read so far
ParseDigits(text, radix, acc, sign) ==
    IF text = <<>> \/ DigitValue(Head(text)) >= radix THEN acc
    ELSE ParseDigits(Tail(text), radix,
                     [nan |-> FALSE,
                      value |-> acc.value * radix + sign * DigitValue(Head(text))],
                     sign)

parseInt(text) ==
    LET trimmed == SkipWhiteSpace(text)
        signed == trimmed # <<>> /\ Head(trimmed) \in {"+", "-"}
        sign == IF signed /\ Head(trimmed) = "-" THEN -1 ELSE 1
        body == IF signed THEN Tail(trimmed) ELSE trimmed
        hex == Len(body) >= 2 /\ body[1] = "0" /\ body[2] \in {"x", "X"}
        start == [nan |-> TRUE, value |-> 0]
    IN  IF hex
        THEN ParseDigits(Tail(Tail(body)), 16, start, sign)
        ELSE ParseDigits(body, 10, start, sign)

\* The closure clearGrid hands to showDialog
clearGridCallback(s, confirmed) ==
    IF confirmed
    THEN saveState(WriteGrid(s,
            [r \in DOMAIN s.grid |->
                [c \in DOMAIN s.grid[r] |->
                    IF r < s.gridHeight /\ c < s.gridWidth
                    THEN WHITE
                    ELSE s.grid[r][c]]]))
    ELSE s

\* The resize closure without gridHeight.value = newSize
resizeGridCallbackWidthOnly(s, value) ==
    IF value = <<>> THEN s
    ELSE LET newSize == parseInt(value)
         IN  IF newSize.nan
             THEN showDialog(s, "alert", "Invalid Input",
                             "Please enter a valid number.", "noop")
             ELSE IF newSize.value < MIN_GRID_SIZE \/ newSize.value > MAX_GRID_SIZE
             THEN showDialog(s, "alert", "Invalid Size",
                             "Grid size must be between 8 and 64.", "noop")
             ELSE initializeGrid([s EXCEPT !.gridWidth = newSize.value])

\* The closure resizeGrid hands to showDialog
resizeGridCallback(s, value) ==
    IF value = <<>> THEN s
    ELSE LET newSize == parseInt(value)
         IN  IF newSize.nan
             THEN showDialog(s, "alert", "Invalid Input",
                             "Please enter a valid number.", "noop")
             ELSE IF newSize.value < MIN_GRID_SIZE \/ newSize.value > MAX_GRID_SIZE
             THEN showDialog(s, "alert", "Invalid Size",
                             "Grid size must be between 8 and 64.", "noop")
             ELSE initializeGrid([s EXCEPT !.gridWidth = newSize.value,
                                           !.gridHeight = newSize.value])

\* dialogCallback.value(value): which closure runs
CallDialogCallback(s, callback, value) ==
    CASE callback = "clearGrid" -> clearGridCallback(s, value)
      [] callback = "resizeGrid" -> resizeGridCallback(s, value)
      [] OTHER -> s

clearGrid(s) ==
    showDialog(s, "confirm", "Clear Canvas",
               "Are you sure you want to clear the entire canvas?", "clearGrid")

resizeGrid(s) ==
    showDialog(s, "prompt", "Resize Canvas",
               "Enter grid size (8-64, current: " \o ToString(s.gridWidth)
                   \o "x" \o ToString(s.gridHeight) \o "):",
               "resizeGrid")

confirmDialog(s) ==
    LET called ==
            IF s.dialogCallback # "null"
            THEN IF s.dialogType = "prompt"
                 THEN CallDialogCallback(s, s.dialogCallback, s.dialogInput)
                 ELSE IF s.dialogType = "confirm"
                 THEN CallDialogCallback(s, s.dialogCallback, TRUE)
                 ELSE CallDialogCallback(s, s.dialogCallback, Null)
            ELSE s
    IN  closeDialog(called)

cancelDialog(s) ==
    LET called ==
            IF s.dialogCallback # "null" /\ s.dialogType = "confirm"
            THEN CallDialogCallback(s, s.dialogCallback, FALSE)
            ELSE s
    IN  closeDialog(called)

-----------------------------------------------------------------------------
(* Construction and mount *)

INITIAL_GRID_SIZE == 32

\* The refs as the component's setup leaves them
Constructed ==
    [gridWidth |-> INITIAL_GRID_SIZE, gridHeight |-> INITIAL_GRID_SIZE,
     grid |-> <<>>,
     currentColor |-> BLACK, currentTool |-> "pencil",
     isDrawing |-> FALSE, lastDrawnPos |-> Null,
     brushSize |-> 1, hoveredCell |-> Null,
     history |-> <<>>, historyIndex |-> -1,
     colorHistory |-> <<BLACK, WHITE>>,
     dialogVisible |-> FALSE, dialogType |-> "alert",
     dialogTitle |-> "", dialogMessage |-> "",
     dialogInput |-> <<>>, dialogCallback |-> "null",
     sharedEntries |-> {}]

onMounted(s) == initializeGrid(s)

-----------------------------------------------------------------------------
(* Bounds of the explored sessions *)

\* The sessions explored work on the smallest grid the editor allows: the
\* user's first act after the mount is a resize to StartSize.
StartSize == MIN_GRID_SIZE

\* Events delivered after the session's start
MaxSteps == 4

DigitChar(d) ==
    CASE d = 0 -> "0" [] d = 1 -> "1" [] d = 2 -> "2" [] d = 3 -> "3"
      [] d = 4 -> "4" [] d = 5 -> "5" [] d = 6 -> "6" [] d = 7 -> "7"
      [] d = 8 -> "8" [] d = 9 -> "9"

RECURSIVE Numeral(_)
\* The decimal text a user types for the number n >= 0
Numeral(n) ==
    IF n < 10 THEN <<DigitChar(n)>>
    ELSE Append(Numeral(n \div 10), DigitChar(n % 10))

\* Mount, then Resize, type the size, Confirm
SessionStart ==
    LET mounted == onMounted(Constructed)
        prompted == resizeGrid(mounted)
        typed == [prompted EXCEPT !.dialogInput = Numeral(StartSize)]
    IN  confirmDialog(typed)

\* A mouse event over the cell (row, col) of the canvas at its logical size
EventAt(s, row, col, buttons) ==
    [x |-> ((2 * col + 1) * CANVAS_SIZE) \div (2 * s.gridWidth),
     y |-> ((2 * row + 1) * CANVAS_SIZE) \div (2 * s.gridHeight),
     rectWidth |-> CANVAS_SIZE, rectHeight |-> CANVAS_SIZE,
     buttons |-> buttons]

\* A press and release on the canvas: mousedown, then mouseup, which the
\* canvas listener and the document listener both receive.
Click(s, event) == stopDrawing(onCanvasMouseUp(onCanvasMouseDown(s, event)))

\* The cell with number k in row major order
CellNumber(s, k) ==
    [row |-> (k \div s.gridWidth) % s.gridHeight, col |-> k % s.gridWidth]

-----------------------------------------------------------------------------
(* Inputs of the explored sessions *)

\* Values of the <input type="color">, which reports lower-case hex
PickerColors == {"#ff0000"}

\* Pointer positions relative to the canvas rectangle, in pixels: left of and
\* above the canvas, inside it, right of it
PointerPositions ==
    { [x |-> -30, y |-> -3], [x |-> 280, y |-> 290], [x |-> 700, y |-> 360] }

\* Where the pointer hovers with no button held
HoverPositions == { [x |-> 280, y |-> 290] }

\* One position inside every cell of the grid
CellPositions ==
    { [x |-> EventAt(Cur, r, c, 1).x, y |-> EventAt(Cur, r, c, 1).y] :
        r \in 0..(gridHeight - 1), c \in 0..(gridWidth - 1) }

MouseEvents(positions, buttons) ==
    { [x |-> p.x, y |-> p.y, rectWidth |-> CANVAS_SIZE,
       rectHeight |-> CANVAS_SIZE, buttons |-> buttons] : p \in positions }

\* Brush sizes the free sessions select
SessionBrushSizes == {1, 2}

\* Texts typed into the prompt dialog
DialogInputs == { Numeral(StartSize + 1), <<"7">>, <<"x">> }

-----------------------------------------------------------------------------
(* The observer.  op is the last event delivered; steps counts the events;  *)
(* phase follows the pointer gesture: "down" after a mousedown on the       *)
(* canvas, "drag" after moves with the primary button held, "clicked" or    *)
(* "dragged" after the mouseup that ends it, "none" otherwise; tool, cell   *)
(* and before are the tool, the cell and the grid, history and colour at    *)
(* the gesture's mousedown.  The other fields belong to one scenario each.  *)

Observe(op, phase, tool, cell, before) ==
    obs' = [obs EXCEPT !.op = op, !.steps = @ + 1, !.phase = phase,
                       !.tool = tool, !.cell = cell, !.before = before]

Settled(op) == Observe(op, "none", "none", Null, Null)

Snapshot ==
    [grid |-> grid, history |-> history, historyIndex |-> historyIndex,
     currentColor |-> currentColor, brushSize |-> brushSize,
     colorHistory |-> colorHistory, gridWidth |-> gridWidth,
     gridHeight |-> gridHeight, lastDrawnPos |-> lastDrawnPos,
     dialogInput |-> dialogInput, isDrawing |-> isDrawing,
     hoveredCell |-> hoveredCell]

InGesture == obs.phase \in {"down", "drag"}

ObsStart(stage) ==
    [op |-> "start", steps |-> 0, phase |-> "none", tool |-> "none",
     cell |-> Null, before |-> Null, stage |-> stage,
     warm |-> 0, edits |-> 0, undos |-> 0, redos |-> 0, samples |-> <<>>]

-----------------------------------------------------------------------------
(* Events: one handler run each, with the inputs drawn from the given set *)

ToolClicked(tools) ==
    /\ ~dialogVisible
    /\ \E t \in tools : Becomes([Cur EXCEPT !.currentTool = t])
    /\ Settled("selectTool")

BrushSizeClicked(sizes) ==
    /\ ~dialogVisible
    /\ \E size \in sizes : Becomes([Cur EXCEPT !.brushSize = size])
    /\ Settled("selectBrushSize")

ColorPicked(colors) ==
    /\ ~dialogVisible
    /\ \E c \in colors : Becomes([Cur EXCEPT !.currentColor = c])
    /\ Settled("pickColor")

RecentColorClicked ==
    /\ ~dialogVisible
    /\ \E i \in DOMAIN colorHistory :
            Becomes([Cur EXCEPT !.currentColor = colorHistory[i]])
    /\ Settled("clickRecentColor")

MouseDownAt(positions) ==
    /\ ~dialogVisible
    /\ \E e \in MouseEvents(positions, 1) :
        /\ Becomes(onCanvasMouseDown(Cur, e))
        /\ Observe("mousedown", "down", currentTool,
                   getCanvasCoordinates(Cur, e), Snapshot)

MouseMovedTo(events) ==
    /\ ~dialogVisible
    /\ \E e \in events :
        /\ Becomes(onCanvasMouseMove(Cur, e))
        /\ IF e.buttons = 1 /\ InGesture
           THEN Observe("mousemove", "drag", obs.tool, obs.cell, obs.before)
           ELSE Settled("mousemove")

\* mouseup over the canvas: the canvas listener, then the document listener
MouseUpOnCanvas ==
    /\ ~dialogVisible
    /\ Becomes(stopDrawing(onCanvasMouseUp(Cur)))
    /\ IF InGesture
       THEN Observe("mouseup", IF obs.phase = "down" THEN "clicked" ELSE "dragged",
                    obs.tool, obs.cell, obs.before)
       ELSE Settled("mouseup")

\* mouseup anywhere else: the document listener alone
MouseUpElsewhere ==
    /\ Becomes(stopDrawing(Cur))
    /\ Settled("mouseup")

MouseLeft ==
    /\ ~dialogVisible
    /\ Becomes(onCanvasMouseLeave(Cur))
    /\ Settled("mouseleave")

UndoKeyed ==
    /\ Becomes(undo(Cur))
    /\ Settled("undo")

RedoKeyed ==
    /\ Becomes(redo(Cur))
    /\ Settled("redo")

ClearClicked ==
    /\ ~dialogVisible
    /\ Becomes(clearGrid(Cur))
    /\ Settled("clearGrid")

ResizeClicked ==
    /\ ~dialogVisible
    /\ Becomes(resizeGrid(Cur))
    /\ Settled("resizeGrid")

DialogInputTyped(texts) ==
    /\ dialogVisible /\ dialogType = "prompt"
    /\ \E text \in texts : Becomes([Cur EXCEPT !.dialogInput = text])
    /\ Settled("typeDialogInput")

\* The Confirm / OK button, or Enter in the prompt's input
DialogConfirmed ==
    /\ dialogVisible
    /\ Becomes(confirmDialog(Cur))
    /\ Settled("confirmDialog")

\* The Cancel button, or a click on the overlay
DialogCancelled ==
    /\ dialogVisible
    /\ Becomes(cancelDialog(Cur))
    /\ Settled("cancelDialog")

-----------------------------------------------------------------------------
(* The free session: any event in any order, MaxSteps of them, from a      *)
(* fresh session or from one whose history stack is full                   *)

\* Warm-up clicks made before the free exploration starts
WarmUpClicks == {0, MAX_HISTORY - 1}

CanStep == obs.steps < MaxSteps /\ obs.warm \in WarmUpClicks

\* A warm-up click: a pencil click on the next cell in row major order, made
\* before any other event, until the history stack is full
WarmUpClick ==
    /\ obs.steps = 0 /\ obs.warm < MAX_HISTORY - 1
    /\ LET cell == CellNumber(Cur, obs.warm)
       IN  Becomes(Click(Cur, EventAt(Cur, cell.row, cell.col, 1)))
    /\ obs' = [obs EXCEPT !.op = "click", !.warm = @ + 1]

SelectTool == CanStep /\ ToolClicked(Tools)

SelectBrushSize == CanStep /\ BrushSizeClicked(SessionBrushSizes)

PickColor == CanStep /\ ColorPicked(PickerColors)

ClickRecentColor == CanStep /\ RecentColorClicked

CanvasMouseDown == CanStep /\ MouseDownAt(PointerPositions)

CanvasMouseMove ==
    CanStep /\ MouseMovedTo(MouseEvents(PointerPositions, 1)
                            \cup MouseEvents(HoverPositions, 0))

CanvasMouseUp == CanStep /\ MouseUpOnCanvas

DocumentMouseUp == CanStep /\ MouseUpElsewhere

CanvasMouseLeave == CanStep /\ MouseLeft

KeyUndo == CanStep /\ UndoKeyed

KeyRedo == CanStep /\ RedoKeyed

ClickClear == CanStep /\ ClearClicked

ClickResize == CanStep /\ ResizeClicked

TypeDialogInput == CanStep /\ DialogInputTyped(DialogInputs)

DialogConfirm == CanStep /\ DialogConfirmed

DialogCancel == CanStep /\ DialogCancelled

Init ==
    /\ Starts(SessionStart)
    /\ obs = ObsStart("free")

Next ==
    \/ WarmUpClick
    \/ SelectTool
    \/ SelectBrushSize
    \/ PickColor
    \/ ClickRecentColor
    \/ CanvasMouseDown
    \/ CanvasMouseMove
    \/ CanvasMouseUp
    \/ DocumentMouseUp
    \/ CanvasMouseLeave
    \/ KeyUndo
    \/ KeyRedo
    \/ ClickClear
    \/ ClickResize
    \/ TypeDialogInput
    \/ DialogConfirm
    \/ DialogCancel

Spec == Init /\ [][Next]_vars

-----------------------------------------------------------------------------
(* Claims about the free session *)

\* The cells in which the grids g and h differ
ChangedCells(g, h) ==
    { cell \in { [row |-> r, col |-> c] : r \in DOMAIN g, c \in DOMAIN g[0] } :
        g[cell.row][cell.col] # h[cell.row][cell.col] }

\* The history stack is the one of the snapshot with the entries after its
\* cursor dropped and the current grid appended, less the oldest entry if
\* that makes more than MAX_HISTORY, and the cursor is on the last entry.
AppendedOnce(before) ==
    LET kept == SubSeq(before.history, 1, before.historyIndex + 1)
        all == Append(kept, grid)
    IN  /\ history = IF Len(all) > MAX_HISTORY THEN SubSeq(all, 2, Len(all)) ELSE all
        /\ historyIndex = Len(history) - 1

\* C1, first part: when a pencil or eraser gesture (mousedown on the canvas,
\* moves with the button held, mouseup delivered to the canvas and to the
\* document) has ended, the history stack holds exactly one entry more than
\* the entries it kept from the gesture's start.
C1_GestureRecorded ==
    (obs.phase \in {"clicked", "dragged"} /\ obs.tool \in {"pencil", "eraser"})
        => AppendedOnce(obs.before)

\* C1, second part: a mouseup delivered while no gesture is active leaves the
\* history stack and its cursor alone.
C1_IdleMouseUp ==
    (obs'.op = "mouseup" /\ ~isDrawing) => UNCHANGED <<history, historyIndex>>

\* C1: a pencil or eraser gesture appends exactly one history entry however
\* many cells it painted, and a mouseup with no gesture active appends none.
C1_OneSnapshotPerGesture == []C1_GestureRecorded /\ [][C1_IdleMouseUp]_vars

\* C1 witness: a pencil drag that painted several cells has ended.
C1_Witness ==
    /\ obs.phase = "dragged" /\ obs.tool = "pencil"
    /\ Cardinality(ChangedCells(obs.before.grid, grid)) > 1

\* C2: a fill click (mousedown with the fill tool, then mouseup, no motion)
\* is followed by exactly one history snapshot, and one undo restores the
\* grid as it was before the click.
C2_FillClickOneSnapshot ==
    (obs.phase = "clicked" /\ obs.tool = "fill")
        => /\ AppendedOnce(obs.before)
           /\ undo(Cur).grid = obs.before.grid

\* C4: the history cursor points into the history stack and the stack holds
\* at most MAX_HISTORY entries.
C4_HistoryCursorInRange ==
    /\ 0 <= historyIndex
    /\ historyIndex < Len(history)
    /\ Len(history) <= MAX_HISTORY

\* C4 witness: a gesture recorded on a full stack has evicted the oldest
\* entry.
C4_Witness ==
    /\ obs.phase = "clicked"
    /\ Len(obs.before.history) = MAX_HISTORY
    /\ obs.before.historyIndex = MAX_HISTORY - 1
    /\ Len(history) = MAX_HISTORY
    /\ history[1] = obs.before.history[2]

\* C6, one step: undo at the oldest entry and redo at the newest change
\* neither grid, history nor cursor; otherwise the cursor moves by exactly
\* one and the grid becomes the entry at the new cursor.
C6_UndoRedoStep ==
    /\ obs'.op = "undo" =>
        IF historyIndex = 0
        THEN UNCHANGED <<grid, history, historyIndex>>
        ELSE /\ historyIndex' = historyIndex - 1
             /\ grid' = history'[historyIndex' + 1]
    /\ obs'.op = "redo" =>
        IF historyIndex = Len(history) - 1
        THEN UNCHANGED <<grid, history, historyIndex>>
        ELSE /\ historyIndex' = historyIndex + 1
             /\ grid' = history'[historyIndex' + 1]

\* C6: undo and redo are no-ops at the ends of the history stack and move the
\* cursor by one, installing the entry there, everywhere else.
C6_UndoRedo == [][C6_UndoRedoStep]_vars

\* C6 witness: an undo has moved the cursor off the newest entry and
\* installed an entry that differs from the one it left.
C6_Witness ==
    /\ obs.op = "undo"
    /\ historyIndex < Len(history) - 1
    /\ grid = history[historyIndex + 1]
    /\ grid # history[historyIndex + 2]

\* C8: a fill on a cell that already has the current colour leaves the grid
\* unchanged and records nothing: the history stack and its cursor are as
\* they were.
C8_SameColorFillNotRecorded ==
    (/\ obs.op = "mousedown" /\ obs.tool = "fill"
     /\ obs.before.grid[obs.cell.row][obs.cell.col] = obs.before.currentColor)
        => /\ grid = obs.before.grid
           /\ history = obs.before.history
           /\ historyIndex = obs.before.historyIndex

\* C11: a mousedown with the eyedropper sets the current colour to the
\* colour of the cell and the tool to pencil, and changes no grid cell,
\* neither the brush size nor the colour history.
C11_EyedropperPick ==
    (obs.op = "mousedown" /\ obs.tool = "eyedropper") =>
        /\ currentColor = obs.before.grid[obs.cell.row][obs.cell.col]
        /\ currentTool = "pencil"
        /\ grid = obs.before.grid
        /\ brushSize = obs.before.brushSize
        /\ colorHistory = obs.before.colorHistory

\* C11 witness: the eyedropper has picked a colour that was not the current
\* one.
C11_Witness ==
    /\ obs.op = "mousedown" /\ obs.tool = "eyedropper"
    /\ currentColor # obs.before.currentColor
    /\ currentTool = "pencil"

\* C12: an eyedropper click (mousedown with the eyedropper, then mouseup, no
\* motion) records nothing: history and historyIndex are as before the click.
C12_EyedropperClickNotRecorded ==
    (obs.phase = "clicked" /\ obs.tool = "eyedropper") =>
        /\ history = obs.before.history
        /\ historyIndex = obs.before.historyIndex

-----------------------------------------------------------------------------
(* The history session: pencil clicks on one fresh cell after another,     *)
(* then undos, then either redos or one more click                         *)

\* Pencil clicks of the history session
MaxEdits == 60

\* The grid with the first n cells in row major order painted black
PaintedGrid(n) ==
    [r \in 0..(gridHeight - 1) |->
        [c \in 0..(gridWidth - 1) |->
            IF r * gridWidth + c < n THEN BLACK ELSE WHITE]]

\* A pencil click on the next fresh cell: one recorded edit
RecordEdit ==
    /\ obs.stage = "edit" /\ obs.edits < MaxEdits
    /\ LET cell == CellNumber(Cur, obs.edits)
       IN  Becomes(Click(Cur, EventAt(Cur, cell.row, cell.col, 1)))
    /\ obs' = [obs EXCEPT !.op = "edit", !.edits = @ + 1, !.before = Snapshot]

\* Ctrl+Z, as many times as there were edits
UndoEdit ==
    /\ obs.stage \in {"edit", "undo"} /\ obs.undos < obs.edits
    /\ Becomes(undo(Cur))
    /\ obs' = [obs EXCEPT !.op = "undo", !.stage = "undo", !.undos = @ + 1]

\* Ctrl+Y, once every edit has been undone, as many times as there were undos
RedoEdit ==
    /\ \/ obs.stage = "undo" /\ obs.undos = obs.edits
       \/ obs.stage = "redo"
    /\ obs.redos < obs.undos
    /\ Becomes(redo(Cur))
    /\ obs' = [obs EXCEPT !.op = "redo", !.stage = "redo", !.redos = @ + 1]

\* A pencil click on the last cell of the grid after some undos
EditAfterUndo ==
    /\ obs.stage = "undo"
    /\ LET cell == CellNumber(Cur, gridWidth * gridHeight - 1)
       IN  Becomes(Click(Cur, EventAt(Cur, cell.row, cell.col, 1)))
    /\ obs' = [obs EXCEPT !.op = "edit", !.stage = "edited", !.before = Snapshot]

InitHistory == Starts(SessionStart) /\ obs = ObsStart("edit")

NextHistory == RecordEdit \/ UndoEdit \/ RedoEdit \/ EditAfterUndo

SpecHistory == InitHistory /\ [][NextHistory]_vars

\* C3: from a freshly initialised grid and k < MAX_HISTORY recorded edits, k
\* undos leave the grid all white, and k redos after them leave the grid as
\* it was after the k-th edit.
C3_UndoAllRedoAll ==
    obs.edits < MAX_HISTORY =>
        /\ (obs.stage = "undo" /\ obs.undos = obs.edits)
                => grid = BlankGrid(gridHeight, gridWidth)
        /\ (obs.stage = "redo" /\ obs.redos = obs.edits)
                => grid = PaintedGrid(obs.edits)

\* C3 witness: MAX_HISTORY - 1 edits have been undone and redone.
C3_Witness ==
    /\ obs.stage = "redo"
    /\ obs.edits = MAX_HISTORY - 1
    /\ obs.redos = obs.edits
    /\ grid # BlankGrid(gridHeight, gridWidth)

\* The stack after a record made in the state before: the entries up to the
\* cursor of before in their order, less the oldest if the stack was full,
\* then the grid; the cursor on the last entry.
RecordedOn(before) ==
    LET kept == SubSeq(before.history, 1, before.historyIndex + 1)
        evicts == Len(kept) + 1 > MAX_HISTORY
    IN  /\ Len(history) = IF evicts THEN MAX_HISTORY ELSE Len(kept) + 1
        /\ history[Len(history)] = grid
        /\ historyIndex = Len(history) - 1
        /\ \A i \in 1..(Len(history) - 1) :
                history[i] = kept[IF evicts THEN i + 1 ELSE i]

\* The stack after n records on an empty stack, the j-th record being the
\* grid with j - 1 cells painted: the last MAX_HISTORY of them.
LastRecords(n) ==
    LET gone == Max(0, n - MAX_HISTORY)
    IN  [i \in 1..(n - gone) |-> PaintedGrid(gone + i - 1)]

\* C5: a record drops the entries after the cursor, appends the grid and
\* leaves the cursor on it, so that redo does nothing; a record on a full
\* stack evicts the oldest entry and keeps the order of the others.  n
\* records on an empty stack leave the last MAX_HISTORY of them: 60 records
\* leave 50 entries, the 10 oldest gone, the most recent one current.
C5_RecordTruncatesAppendsEvicts ==
    /\ obs.op = "edit" => RecordedOn(obs.before) /\ redo(Cur) = Cur
    /\ obs.stage = "edit" =>
        /\ history = LastRecords(obs.edits + 1)
        /\ historyIndex = Len(history) - 1
        /\ grid = history[Len(history)]

\* C5 witness: the initial record and MAX_HISTORY + 9 edits have been made,
\* ten more records than the stack holds.
C5_Witness ==
    /\ obs.stage = "edit"
    /\ obs.edits + 1 = MAX_HISTORY + 10
    /\ Len(history) = MAX_HISTORY
    /\ history[1] = PaintedGrid(10)

-----------------------------------------------------------------------------
(* The line session: a mousedown on any cell, then one move with the       *)
(* primary button held to any cell                                         *)

LineMouseDown == obs.steps = 0 /\ MouseDownAt(CellPositions)

LineMouseMove == obs.phase = "down" /\ MouseMovedTo(MouseEvents(CellPositions, 1))

InitLine == Starts(SessionStart) /\ obs = ObsStart("line")

NextLine == LineMouseDown \/ LineMouseMove

SpecLine == InitLine /\ [][NextLine]_vars

\* C10: the cells drawLine stamps between the cell of the mousedown and the
\* cell of the move start at the first and end at the second, go by at most
\* one row and one column at a time, and number the larger of the two
\* distances plus one, so that the loop ends; they are the cells the gesture
\* painted.  (0,0) to (5,5) is the diagonal, (0,0) to (0,5) the horizontal
\* run.
C10_LineShape ==
    obs.phase = "drag" =>
        LET from == obs.cell
            to == lastDrawnPos
            line == LineCells(from.row, from.col, to.row, to.col)
            n == Max(Abs(to.row - from.row), Abs(to.col - from.col)) + 1
        IN  /\ Len(line) = n
            /\ line[1] = from
            /\ line[n] = to
            /\ \A i \in 1..(n - 1) :
                /\ Abs(line[i + 1].row - line[i].row) <= 1
                /\ Abs(line[i + 1].col - line[i].col) <= 1
            /\ ChangedCells(obs.before.grid, grid) = { line[i] : i \in 1..n }
            /\ (from = [row |-> 0, col |-> 0] /\ to = [row |-> 5, col |-> 5])
                    => line = [i \in 1..6 |-> [row |-> i - 1, col |-> i - 1]]
            /\ (from = [row |-> 0, col |-> 0] /\ to = [row |-> 0, col |-> 5])
                    => line = [i \in 1..6 |-> [row |-> 0, col |-> i - 1]]

\* C10 witness: a line that is neither straight nor diagonal, drawn up and
\* to the left, has been painted.
C10_Witness ==
    /\ obs.phase = "drag"
    /\ lastDrawnPos.row < obs.cell.row /\ lastDrawnPos.col < obs.cell.col
    /\ obs.cell.row - lastDrawnPos.row > obs.cell.col - lastDrawnPos.col
    /\ Cardinality(ChangedCells(obs.before.grid, grid))
            = obs.cell.row - lastDrawnPos.row + 1

-----------------------------------------------------------------------------
(* The brush session: a brush size, a first pencil stamp, perhaps another  *)
(* colour, then a pencil stamp on any cell                                 *)

BrushSizeChosen == obs.steps = 0 /\ BrushSizeClicked(BrushSizes)

BrushFirstDown == obs.op = "selectBrushSize" /\ MouseDownAt(PointerPositions)

BrushFirstUp == obs.op = "mousedown" /\ obs.steps = 2 /\ MouseUpOnCanvas

BrushColorPicked == obs.op = "mouseup" /\ ColorPicked(PickerColors)

BrushStamped == obs.op \in {"mouseup", "pickColor"} /\ MouseDownAt(CellPositions)

InitBrush == Starts(SessionStart) /\ obs = ObsStart("brush")

NextBrush ==
    \/ BrushSizeChosen
    \/ BrushFirstDown
    \/ BrushFirstUp
    \/ BrushColorPicked
    \/ BrushStamped

SpecBrush == InitBrush /\ [][NextBrush]_vars

\* The square of cells with rows rows and columns cols
Square(rows, cols) == { [row |-> r, col |-> c] : r \in rows, c \in cols }

\* The grid is the grid of before with the cells of painted in the colour
PaintedOver(before, painted, color) ==
    \A r \in 0..(gridHeight - 1), c \in 0..(gridWidth - 1) :
        grid[r][c] = IF [row |-> r, col |-> c] \in painted THEN color
                     ELSE before.grid[r][c]

\* C9: a pencil stamp with brush size b at the cell (r, c) sets to the
\* current colour exactly the cells (r + i, c + j) with
\* -floor(b/2) <= i, j < b - floor(b/2) that lie inside the grid.  Size 3 at
\* (5,5) is rows and columns 4..6, size 3 at (0,0) is 4 cells, size 2 at
\* (5,5) is rows and columns 4..5.
C9_BrushStamp ==
    (obs.op = "mousedown" /\ obs.tool = "pencil") =>
        LET b == obs.before.brushSize
            r == obs.cell.row
            c == obs.cell.col
            low == 0 - (b \div 2)
            high == b - (b \div 2) - 1
            touched == Square((r + low)..(r + high), (c + low)..(c + high))
                        \cap Square(0..(gridHeight - 1), 0..(gridWidth - 1))
        IN  /\ PaintedOver(obs.before, touched, obs.before.currentColor)
            /\ (b = 3 /\ r = 5 /\ c = 5) => touched = Square(4..6, 4..6)
            /\ (b = 3 /\ r = 0 /\ c = 0) => Cardinality(touched) = 4
            /\ (b = 2 /\ r = 5 /\ c = 5) => touched = Square(4..5, 4..5)

\* C9 witness: an even brush has stamped red at (5,5) over a grid that had
\* black cells, which are still there.
C9_Witness ==
    /\ obs.op = "mousedown" /\ obs.tool = "pencil" /\ obs.steps > 2
    /\ obs.before.brushSize = 2
    /\ obs.cell = [row |-> 5, col |-> 5]
    /\ obs.before.currentColor # BLACK
    /\ ChangedCells(obs.before.grid, grid) = Square(4..5, 4..5)
    /\ \E r \in 0..(gridHeight - 1), c \in 0..(gridWidth - 1) : grid[r][c] = BLACK

-----------------------------------------------------------------------------
(* The fill session: pencil clicks on some of the wall cells, the fill     *)
(* tool, perhaps another colour, then a mousedown on any cell              *)

\* Cells the fill session may paint before it fills: they close off the
\* corners (0,0) and (7,7) of the start grid
WallCells ==
    Square({0}, {1}) \cup Square({1}, {0}) \cup Square({3}, {3})
        \cup Square({6}, {7}) \cup Square({7}, {6})

\* The number of the cell in row major order
NumberOfCell(cell) == cell.row * gridWidth + cell.col

\* A pencil click on a wall cell after the last one clicked
WallClick ==
    /\ obs.op \in {"start", "wall"}
    /\ \E cell \in WallCells :
        /\ NumberOfCell(cell) >= obs.edits
        /\ Becomes(Click(Cur, EventAt(Cur, cell.row, cell.col, 1)))
        /\ obs' = [obs EXCEPT !.op = "wall", !.edits = NumberOfCell(cell) + 1]

FillToolSelected == obs.op \in {"start", "wall"} /\ ToolClicked({"fill"})

FillColorPicked == obs.op = "selectTool" /\ ColorPicked(PickerColors)

FillMouseDown ==
    obs.op \in {"selectTool", "pickColor"} /\ MouseDownAt(CellPositions)

InitFill == Starts(SessionStart) /\ obs = ObsStart("fill")

NextFill == WallClick \/ FillToolSelected \/ FillColorPicked \/ FillMouseDown

SpecFill == InitFill /\ [][NextFill]_vars

\* The cells of the grid g of the colour that are one step up, down, left or
\* right of a cell of frontier
Adjacent(g, frontier, color) ==
    { cell \in UNION { Square((n.row - 1)..(n.row + 1), (n.col - 1)..(n.col + 1)) :
                        n \in frontier } :
        /\ cell.row \in DOMAIN g /\ cell.col \in DOMAIN g[0]
        /\ g[cell.row][cell.col] = color
        /\ \E n \in frontier :
                Abs(n.row - cell.row) + Abs(n.col - cell.col) = 1 }

RECURSIVE Connected(_, _, _, _)
\* The cells reached from region by steps to adjacent cells of the colour,
\* frontier being the cells of region whose neighbours are still to be seen
Connected(g, region, frontier, color) ==
    IF frontier = {} THEN region
    ELSE TheOne({ Connected(g, region \cup found, found, color) :
                    found \in {Adjacent(g, frontier, color) \ region} })

\* C7: a fill from a cell whose colour is not the current colour recolours
\* exactly the cells reached from it by 4-connected steps over cells of its
\* colour and changes no other cell; on a grid of one colour it recolours
\* every cell.
C7_FillRegion ==
    (/\ obs.op = "mousedown" /\ obs.tool = "fill"
     /\ obs.before.grid[obs.cell.row][obs.cell.col] # obs.before.currentColor) =>
        LET g == obs.before.grid
            target == g[obs.cell.row][obs.cell.col]
        IN  /\ \E region \in {Connected(g, {obs.cell}, {obs.cell}, target)} :
                    PaintedOver(obs.before, region, obs.before.currentColor)
            /\ (\A r \in DOMAIN g, c \in DOMAIN g[0] : g[r][c] = target)
                    => \A r \in DOMAIN g, c \in DOMAIN g[0] :
                            grid[r][c] = obs.before.currentColor

\* C7 witness: a fill has recoloured several cells and a cell of the same
\* colour behind a wall is as it was.
C7_Witness ==
    /\ obs.op = "mousedown" /\ obs.tool = "fill"
    /\ Cardinality(ChangedCells(obs.before.grid, grid)) > 1
    /\ \E cell \in Square(0..(gridHeight - 1), 0..(gridWidth - 1)) :
        /\ obs.before.grid[cell.row][cell.col]
                = obs.before.grid[obs.cell.row][obs.cell.col]
        /\ grid[cell.row][cell.col] = obs.before.grid[cell.row][cell.col]
        /\ grid[cell.row][cell.col] # currentColor

-----------------------------------------------------------------------------
(* The colour session: with the pencil or the fill tool, a click in one    *)
(* new colour after another and, once, a click in a colour of the list     *)

\* Colours the colour session picks, more than the colour history holds
MaxShades == 22

\* The n-th colour of the colour session, as the colour input reports it
Shade(n) == "#" \o ToString(100000 + n)

\* The colour is made the current colour (by the colour input or by a
\* swatch of the list) and the first cell is clicked
ClickIn(s, color) == Click([s EXCEPT !.currentColor = color], EventAt(s, 0, 0, 1))

ColorsFillToolSelected ==
    obs.steps = 0 /\ obs.edits = 0 /\ obs.stage = "colors" /\ ToolClicked({"fill"})

NewColorUsed ==
    /\ obs.edits < MaxShades
    /\ Becomes(ClickIn(Cur, Shade(obs.edits + 1)))
    /\ obs' = [obs EXCEPT !.op = "newColor", !.edits = @ + 1, !.before = Snapshot]

ListedColorUsed ==
    /\ obs.stage = "colors"
    /\ \E i \in DOMAIN colorHistory : Becomes(ClickIn(Cur, colorHistory[i]))
    /\ obs' = [obs EXCEPT !.op = "listedColor", !.stage = "repeated",
                          !.before = Snapshot]

InitColors == Starts(SessionStart) /\ obs = ObsStart("colors")

NextColors == ColorsFillToolSelected \/ NewColorUsed \/ ListedColorUsed

SpecColors == InitColors /\ [][NextColors]_vars

\* The elements of the sequence
Range(seq) == { seq[i] : i \in DOMAIN seq }

\* The sequence without its elements equal to x
Without(seq, x) == SelectSeq(seq, LAMBDA y : y # x)

\* C13: the colour history has no colour twice and at most
\* MAX_COLOR_HISTORY entries.  After a pencil stamp or a fill the current
\* colour is at its front; if the colour was in the list the others keep
\* their order and the length is the same; if it was not and the list was
\* full, exactly the last entry is gone.
C13_ColorHistory ==
    /\ Len(colorHistory) <= MAX_COLOR_HISTORY
    /\ \A i, j \in DOMAIN colorHistory : colorHistory[i] = colorHistory[j] => i = j
    /\ obs.op \in {"newColor", "listedColor"} =>
        LET was == obs.before.colorHistory
        IN  /\ colorHistory[1] = currentColor
            /\ currentColor \in Range(was) =>
                /\ Len(colorHistory) = Len(was)
                /\ Tail(colorHistory) = Without(was, currentColor)
            /\ (currentColor \notin Range(was) /\ Len(was) < MAX_COLOR_HISTORY) =>
                Tail(colorHistory) = was
            /\ (currentColor \notin Range(was) /\ Len(was) = MAX_COLOR_HISTORY) =>
                Tail(colorHistory) = SubSeq(was, 1, MAX_COLOR_HISTORY - 1)

\* C13 witness: a new colour has been added to a full list whose last entry
\* is gone, after a colour of the list had been moved to the front.
C13_Witness ==
    /\ obs.op = "newColor" /\ obs.stage = "repeated"
    /\ Len(obs.before.colorHistory) = MAX_COLOR_HISTORY
    /\ currentColor \notin Range(obs.before.colorHistory)
    /\ obs.before.colorHistory[MAX_COLOR_HISTORY] \notin Range(colorHistory)

-----------------------------------------------------------------------------
(* The resize session: from a fresh or a full history stack, perhaps after *)
(* an undo, Resize is clicked, a text is typed or not, and the dialog is    *)
(* confirmed or cancelled                                                   *)

\* Texts typed into the resize prompt: every size the editor accepts, one
\* with a leading blank, and texts that are not a size
ResizeInputs ==
    { Numeral(n) : n \in MIN_GRID_SIZE..MAX_GRID_SIZE }
        \cup { <<" ">> \o Numeral(MIN_GRID_SIZE + 4) }
        \cup { Numeral(0), Numeral(MIN_GRID_SIZE - 1), Numeral(MAX_GRID_SIZE + 1),
               <<"-">> \o Numeral(MIN_GRID_SIZE + 1) }
        \cup { <<"x">>, <<"a", "b", "c">>, <<" ">>,
               Numeral(MIN_GRID_SIZE + 1) \o <<"x">>,
               Numeral(MIN_GRID_SIZE + 4) \o <<"a", "b", "c">> }

ResizeWarmUp ==
    /\ obs.stage = "prior" /\ obs.warm < MAX_HISTORY - 1
    /\ LET cell == CellNumber(Cur, obs.warm)
       IN  Becomes(Click(Cur, EventAt(Cur, cell.row, cell.col, 1)))
    /\ obs' = [obs EXCEPT !.op = "click", !.warm = @ + 1]

ResizeAfterUndo ==
    /\ obs.stage = "prior" /\ obs.warm \in WarmUpClicks
    /\ Becomes(undo(Cur))
    /\ obs' = [obs EXCEPT !.op = "undo", !.stage = "undone"]

ResizeOpened ==
    /\ obs.stage \in {"prior", "undone"} /\ obs.warm \in WarmUpClicks
    /\ Becomes(resizeGrid(Cur))
    /\ obs' = [obs EXCEPT !.op = "resizeGrid", !.stage = "prompt"]

ResizeTyped ==
    /\ obs.stage = "prompt"
    /\ \E text \in ResizeInputs : Becomes([Cur EXCEPT !.dialogInput = text])
    /\ obs' = [obs EXCEPT !.op = "typeDialogInput", !.stage = "typed"]

ResizeConfirmed ==
    /\ obs.stage \in {"prompt", "typed"}
    /\ Becomes(confirmDialog(Cur))
    /\ obs' = [obs EXCEPT !.op = "confirmDialog", !.stage = "done",
                          !.before = Snapshot]

ResizeCancelled ==
    /\ obs.stage \in {"prompt", "typed"}
    /\ Becomes(cancelDialog(Cur))
    /\ obs' = [obs EXCEPT !.op = "cancelDialog", !.stage = "done",
                          !.before = Snapshot]

\* After the dialog: a pencil click on the last cell of the grid, an undo
\* and a redo
ResizePainted ==
    /\ obs.stage = "done" /\ ~dialogVisible
    /\ LET cell == CellNumber(Cur, gridWidth * gridHeight - 1)
       IN  Becomes(Click(Cur, EventAt(Cur, cell.row, cell.col, 1)))
    /\ obs' = [obs EXCEPT !.op = "click", !.stage = "painted"]

ResizeUndone ==
    /\ obs.stage = "painted"
    /\ Becomes(undo(Cur))
    /\ obs' = [obs EXCEPT !.op = "undo", !.stage = "reverted"]

ResizeRedone ==
    /\ obs.stage = "reverted"
    /\ Becomes(redo(Cur))
    /\ obs' = [obs EXCEPT !.op = "redo", !.stage = "restored"]

InitResize == Starts(SessionStart) /\ obs = ObsStart("prior")

NextResize ==
    \/ ResizeWarmUp
    \/ ResizeAfterUndo
    \/ ResizeOpened
    \/ ResizeTyped
    \/ ResizeConfirmed
    \/ ResizeCancelled
    \/ ResizePainted
    \/ ResizeUndone
    \/ ResizeRedone

SpecResize == InitResize /\ [][NextResize]_vars

\* The text is the decimal numeral of n, perhaps after a blank or a plus sign
Denotes(text, n) ==
    \E lead \in {<<>>, <<" ">>, <<"+">>} : text = lead \o Numeral(n)

\* The text is an integer from MIN_GRID_SIZE to MAX_GRID_SIZE
IsGridSize(text) == \E n \in MIN_GRID_SIZE..MAX_GRID_SIZE : Denotes(text, n)

\* C14: a resize whose input is empty, is not a number or is a number
\* outside MIN_GRID_SIZE..MAX_GRID_SIZE, and a resize that is cancelled,
\* leave gridWidth, gridHeight, grid, history and historyIndex as they were.
C14_RejectedResizeChangesNothing ==
    (/\ obs.stage = "done"
     /\ obs.op = "cancelDialog" \/ ~IsGridSize(obs.before.dialogInput)) =>
        /\ gridWidth = obs.before.gridWidth
        /\ gridHeight = obs.before.gridHeight
        /\ grid = obs.before.grid
        /\ history = obs.before.history
        /\ historyIndex = obs.before.historyIndex

\* C15: when a text that is not empty and not a grid size has been
\* confirmed in the resize prompt, an alert dialog is visible.
C15_RejectedResizeAlerts ==
    (/\ obs.stage = "done" /\ obs.op = "confirmDialog"
     /\ obs.before.dialogInput # <<>>
     /\ ~IsGridSize(obs.before.dialogInput)) =>
        dialogVisible /\ dialogType = "alert"

\* C16: a confirmed resize to n in MIN_GRID_SIZE..MAX_GRID_SIZE leaves a
\* grid of n rows by n columns, every cell white, and a history stack of
\* that one grid with the cursor on it, so that undo and redo change nothing.
C16_ResizeResets ==
    \A n \in MIN_GRID_SIZE..MAX_GRID_SIZE :
        (/\ obs.stage = "done" /\ obs.op = "confirmDialog"
         /\ Denotes(obs.before.dialogInput, n)) =>
            /\ gridWidth = n /\ gridHeight = n
            /\ DOMAIN grid = 0..(n - 1)
            /\ \A r \in 0..(n - 1) :
                /\ DOMAIN grid[r] = 0..(n - 1)
                /\ \A c \in 0..(n - 1) : grid[r][c] = WHITE
            /\ history = <<grid>>
            /\ historyIndex = 0
            /\ undo(Cur) = Cur
            /\ redo(Cur) = Cur

\* C16 witness: the largest size has been confirmed on a full history stack
\* whose cursor an undo had moved back.
C16_Witness ==
    /\ obs.stage = "done" /\ obs.op = "confirmDialog"
    /\ obs.before.dialogInput = Numeral(MAX_GRID_SIZE)
    /\ Len(obs.before.history) = MAX_HISTORY
    /\ obs.before.historyIndex = MAX_HISTORY - 2
    /\ gridWidth = MAX_GRID_SIZE
    /\ Len(history) = 1

-----------------------------------------------------------------------------
(* The gesture session: a pencil mousedown, perhaps a move with the button *)
(* held, perhaps a move that reports no button, then the pointer leaves    *)
(* the canvas and comes back with the button held                          *)

GestureDown == obs.steps = 0 /\ MouseDownAt(PointerPositions)

GestureDragged ==
    obs.op = "mousedown" /\ MouseMovedTo(MouseEvents(PointerPositions, 1))

\* A mousemove that reports no button held, with no mouseup before it
GestureButtonLost ==
    /\ obs.op \in {"mousedown", "mousemove"}
    /\ \E e \in MouseEvents(HoverPositions, 0) : Becomes(onCanvasMouseMove(Cur, e))
    /\ obs' = [obs EXCEPT !.op = "hover", !.steps = @ + 1]

GestureLeft ==
    /\ obs.op \in {"mousedown", "mousemove", "hover"}
    /\ Becomes(onCanvasMouseLeave(Cur))
    /\ obs' = [obs EXCEPT !.op = "mouseleave", !.steps = @ + 1,
                          !.before = Snapshot]

GestureReentered ==
    /\ obs.op = "mouseleave"
    /\ \E e \in MouseEvents(CellPositions, 1) :
        /\ Becomes(onCanvasMouseMove(Cur, e))
        /\ obs' = [obs EXCEPT !.op = "reenter", !.steps = @ + 1,
                              !.cell = getCanvasCoordinates(Cur, e)]

InitGesture == Starts(SessionStart) /\ obs = ObsStart("gesture")

NextGesture ==
    \/ GestureDown
    \/ GestureDragged
    \/ GestureButtonLost
    \/ GestureLeft
    \/ GestureReentered

SpecGesture == InitGesture /\ [][NextGesture]_vars

\* C17: after a mousemove that reports the primary button not held no
\* gesture is active, whether or not a mouseup was delivered.
C17_ButtonLossEndsGesture == obs.op = "hover" => ~isDrawing

\* C20: a mouseleave during a gesture leaves isDrawing, lastDrawnPos, the
\* grid and the history as they were and clears the hovered cell; the next
\* move with the button held paints the line from the retained last cell to
\* the cell of the move.
C20_LeaveKeepsGesture ==
    /\ obs.op = "mouseleave" =>
        /\ isDrawing = obs.before.isDrawing
        /\ lastDrawnPos = obs.before.lastDrawnPos
        /\ grid = obs.before.grid
        /\ history = obs.before.history
        /\ historyIndex = obs.before.historyIndex
        /\ hoveredCell = Null
    /\ obs.op = "reenter" =>
        LET from == obs.before.lastDrawnPos
            line == LineCells(from.row, from.col, obs.cell.row, obs.cell.col)
        IN  /\ isDrawing
            /\ lastDrawnPos = obs.cell
            /\ PaintedOver(obs.before, Range(line), currentColor)

\* C20 witness: the pointer left during a drag, the hover preview was
\* cleared, and the re-entry painted cells between the last cell of the
\* drag and a cell away from it.
C20_Witness ==
    /\ obs.op = "reenter"
    /\ obs.before.isDrawing
    /\ obs.before.hoveredCell # Null
    /\ obs.before.lastDrawnPos # Null
    /\ Cardinality(ChangedCells(obs.before.grid, grid)) > 2
    /\ hoveredCell = Null

-----------------------------------------------------------------------------
(* The pointer session: on the start grid or on one a cell larger, the     *)
(* pointer moves, no button held, to a position in or around the canvas    *)
(* rectangle, which is shown at its logical size, smaller or larger        *)

\* Widths and heights of the canvas rectangle on the page
RectSizes == { CANVAS_SIZE \div 2, CANVAS_SIZE, (3 * CANVAS_SIZE) \div 2 }

\* Pointer coordinates relative to a rectangle of the size: from a quarter
\* of it before the rectangle to a quarter of it past, and the pixels at
\* its two edges
SweepCoordinates(size) ==
    { (k * size) \div 8 - size \div 4 : k \in 0..12 }
        \cup { -3, -1, size - 1, size + 10 }

SweepEvents ==
    { [x |-> x, y |-> y, rectWidth |-> size, rectHeight |-> size, buttons |-> 0] :
        x \in UNION { SweepCoordinates(size) : size \in RectSizes },
        y \in UNION { SweepCoordinates(size) : size \in RectSizes },
        size \in RectSizes }

\* Resize, the size typed, Confirm
Resized(s, n) == confirmDialog([resizeGrid(s) EXCEPT !.dialogInput = Numeral(n)])

PointerGridEnlarged ==
    /\ obs.stage = "pointer" /\ obs.op = "start"
    /\ Becomes(Resized(Cur, StartSize + 1))
    /\ obs' = [obs EXCEPT !.stage = "enlarged"]

PointerMoved ==
    /\ obs.op = "start"
    /\ \E e \in SweepEvents :
        /\ Becomes(onCanvasMouseMove(Cur, e))
        /\ obs' = [obs EXCEPT !.op = "pointer", !.before = e]

InitPointer == Starts(SessionStart) /\ obs = ObsStart("pointer")

NextPointer == PointerGridEnlarged \/ PointerMoved

SpecPointer == InitPointer /\ [][NextPointer]_vars

\* The index is one of the cells cells laid over the length size: the first
\* if the coordinate at is before them, the last if it is past them
ClampedIndex(index, at, size, cells) ==
    /\ index \in 0..(cells - 1)
    /\ at < 0 => index = 0
    /\ at >= size => index = cells - 1

\* C18: for every pointer position the cell getCanvasCoordinates returns,
\* here the hovered cell, is a cell of the grid: the cell under the pointer,
\* or row or column 0 for a position above or left of the canvas and the
\* last row or column for one below or right of it.
C18_CoordinatesClamped ==
    obs.op = "pointer" =>
        /\ ClampedIndex(hoveredCell.row, obs.before.y, obs.before.rectHeight, gridHeight)
        /\ ClampedIndex(hoveredCell.col, obs.before.x, obs.before.rectWidth, gridWidth)

\* C18 witness: on the enlarged grid a position three pixels above and ten
\* pixels right of the canvas has been mapped to the first row and the last
\* column.
C18_Witness ==
    /\ obs.op = "pointer" /\ obs.stage = "enlarged"
    /\ obs.before.y = -3
    /\ obs.before.x = obs.before.rectWidth + 10
    /\ hoveredCell = [row |-> 0, col |-> gridWidth - 1]

-----------------------------------------------------------------------------
(* The eraser session: a brush size, a pencil stamp, the eraser, perhaps    *)
(* another brush size, then an eraser stamp on any cell                     *)

EraserInkBrushChosen == obs.steps = 0 /\ BrushSizeClicked(BrushSizes)

EraserInkDown ==
    obs.steps = 1 /\ obs.op = "selectBrushSize" /\ MouseDownAt(PointerPositions)

EraserInkUp == obs.op = "mousedown" /\ obs.tool = "pencil" /\ MouseUpOnCanvas

EraserSelected == obs.op = "mouseup" /\ ToolClicked({"eraser"})

EraserBrushChosen == obs.op = "selectTool" /\ BrushSizeClicked(BrushSizes)

EraserStamped ==
    /\ obs.op = "selectTool" \/ (obs.op = "selectBrushSize" /\ obs.steps > 1)
    /\ MouseDownAt(CellPositions)

InitEraser == Starts(SessionStart) /\ obs = ObsStart("eraser")

NextEraser ==
    \/ EraserInkBrushChosen
    \/ EraserInkDown
    \/ EraserInkUp
    \/ EraserSelected
    \/ EraserBrushChosen
    \/ EraserStamped

SpecEraser == InitEraser /\ [][NextEraser]_vars

\* The cells of the grid in the square of b by b cells around (r, c) that
\* starts floor(b/2) cells above and left of it
BrushSquare(b, r, c) ==
    Square((r - b \div 2)..(r - b \div 2 + b - 1),
           (c - b \div 2)..(c - b \div 2 + b - 1))
        \cap Square(0..(gridHeight - 1), 0..(gridWidth - 1))

\* C19: an eraser stamp sets the cells of the pencil's brush square that lie
\* in the grid to white, whatever their colour was, changes no other cell,
\* and leaves the colour history and the current colour as they were.
C19_EraserStamp ==
    (obs.op = "mousedown" /\ obs.tool = "eraser") =>
        /\ PaintedOver(obs.before,
                       BrushSquare(obs.before.brushSize, obs.cell.row, obs.cell.col),
                       WHITE)
        /\ colorHistory = obs.before.colorHistory
        /\ currentColor = obs.before.currentColor

\* C19 witness: an eraser stamp has turned black cells white and left other
\* black cells.
C19_Witness ==
    /\ obs.op = "mousedown" /\ obs.tool = "eraser"
    /\ ChangedCells(obs.before.grid, grid) # {}
    /\ \A cell \in ChangedCells(obs.before.grid, grid) :
            obs.before.grid[cell.row][cell.col] = BLACK
    /\ \E r \in 0..(gridHeight - 1), c \in 0..(gridWidth - 1) : grid[r][c] = BLACK
    /\ currentColor = BLACK

-----------------------------------------------------------------------------
(* Undo, redo and the history entries (free session) *)

\* C21, one step: an undo or a redo leaves the history stack as it is and
\* installs a grid that shares no array with any entry; a mousedown with a
\* tool that records nothing and a mousemove, which paint into the live grid,
\* leave every history entry as it is.
C21_EntriesUntouchedStep ==
    /\ obs'.op \in {"undo", "redo"} =>
        /\ history' = history
        /\ sharedEntries' = {}
    /\ (obs'.op = "mousedown" /\ currentTool # "fill") => history' = history
    /\ obs'.op = "mousemove" => history' = history

\* C21: undo and redo never change the history entries or their number, and
\* painting into the grid they installed changes no entry, the one at the
\* cursor included.
C21_EntriesUntouched == [][C21_EntriesUntouchedStep]_vars

\* C21 witness: after an undo (a redo is still possible) the pencil has
\* painted into the installed grid, which now differs from the entry at the
\* cursor, and the stack is as it was before the mousedown.
C21_Witness ==
    /\ obs.op = "mousedown" /\ obs.tool = "pencil"
    /\ historyIndex < Len(history) - 1
    /\ obs.before.grid = history[historyIndex + 1]
    /\ grid # history[historyIndex + 1]
    /\ history = obs.before.history

-----------------------------------------------------------------------------
(* The live grid and the entry at the cursor (free session) *)

\* C22: whenever no gesture is active (isDrawing is false) the live grid
\* equals the history entry at the cursor.
C22_IdleGridIsCursorEntry ==
    ~isDrawing => grid = history[historyIndex + 1]

\* C22 witness: a pencil gesture that changed the grid has ended, and no
\* gesture is active.
C22_Witness ==
    /\ obs.phase \in {"clicked", "dragged"} /\ obs.tool = "pencil"
    /\ ~isDrawing
    /\ grid # obs.before.grid

-----------------------------------------------------------------------------
(* A gesture begun with the eyedropper: a brush size is chosen, a pencil    *)
(* click inks a stamp, the eyedropper is selected, and then a mousedown,    *)
(* up to MaxMoves moves with the button held and a mouseup follow           *)

\* Moves with the button held in one gesture
MaxMoves == 2

EyedropperBrushChosen == obs.steps = 0 /\ BrushSizeClicked(BrushSizes)

EyedropperInkDown == obs.op = "selectBrushSize" /\ MouseDownAt(PointerPositions)

EyedropperInkUp == obs.op = "mousedown" /\ obs.steps = 2 /\ MouseUpOnCanvas

EyedropperSelected ==
    obs.op = "mouseup" /\ obs.steps = 3 /\ ToolClicked({"eyedropper"})

EyedropperDown == obs.op = "selectTool" /\ MouseDownAt(PointerPositions)

EyedropperDragged ==
    /\ obs.tool = "eyedropper" /\ InGesture
    /\ obs.steps < 5 + MaxMoves
    /\ MouseMovedTo(MouseEvents(PointerPositions, 1))

EyedropperUp == obs.tool = "eyedropper" /\ InGesture /\ MouseUpOnCanvas

InitEyedropper == Starts(SessionStart) /\ obs = ObsStart("eyedropper")

NextEyedropper ==
    \/ EyedropperBrushChosen
    \/ EyedropperInkDown
    \/ EyedropperInkUp
    \/ EyedropperSelected
    \/ EyedropperDown
    \/ EyedropperDragged
    \/ EyedropperUp

SpecEyedropper == InitEyedropper /\ [][NextEyedropper]_vars

\* C23: during and after a gesture begun with the eyedropper selected
\* (mousedown, moves with the primary button held, mouseup) the grid is the
\* grid as it was at the mousedown, for every brush size.
C23_EyedropperGestureKeepsGrid ==
    (obs.tool = "eyedropper"
     /\ obs.phase \in {"down", "drag", "clicked", "dragged"})
        => grid = obs.before.grid

-----------------------------------------------------------------------------
(* A pencil or eraser drag over a coloured ground: the grid is filled with  *)
(* the picked colour, a recent colour and the pencil or the eraser are      *)
(* chosen, and a gesture begins, with a mousedown or with a move that finds *)
(* the button held, and goes on with up to MaxMoves moves                   *)

\* The cells the pointer is sampled in
DragCells ==
    { [row |-> 0, col |-> 0], [row |-> 3, col |-> 3], [row |-> 4, col |-> 7],
      [row |-> 7, col |-> 1], [row |-> 3, col |-> 4] }

DragEvents == { EventAt(Cur, cell.row, cell.col, 1) : cell \in DragCells }

DragColorPicked == obs.steps = 0 /\ ColorPicked(PickerColors)

DragFillSelected == obs.op = "pickColor" /\ ToolClicked({"fill"})

DragGroundDown ==
    /\ obs.op = "selectTool" /\ obs.steps = 2
    /\ MouseDownAt({[x |-> 0, y |-> 0]})

DragGroundUp == obs.op = "mousedown" /\ obs.steps = 3 /\ MouseUpOnCanvas

DragColorChosen == obs.op = "mouseup" /\ obs.steps = 4 /\ RecentColorClicked

DragToolChosen ==
    obs.op = "clickRecentColor" /\ ToolClicked({"pencil", "eraser"})

\* The gesture begins with a mousedown
DragDown ==
    /\ obs.op = "selectTool" /\ obs.steps = 6
    /\ \E e \in DragEvents :
        /\ Becomes(onCanvasMouseDown(Cur, e))
        /\ obs' = [obs EXCEPT !.op = "mousedown", !.steps = @ + 1,
                              !.phase = "down", !.tool = currentTool,
                              !.cell = getCanvasCoordinates(Cur, e),
                              !.before = Snapshot,
                              !.samples = <<getCanvasCoordinates(Cur, e)>>]

\* The gesture begins with a move that finds the button held: the first
\* sample, with no last cell
DragResumed ==
    /\ obs.op = "selectTool" /\ obs.steps = 6
    /\ \E e \in DragEvents :
        /\ Becomes(onCanvasMouseMove(Cur, e))
        /\ obs' = [obs EXCEPT !.op = "mousemove", !.steps = @ + 1,
                              !.phase = "drag", !.tool = currentTool,
                              !.cell = getCanvasCoordinates(Cur, e),
                              !.before = Snapshot,
                              !.stage = "resumed",
                              !.samples = <<getCanvasCoordinates(Cur, e)>>]

DragMoved ==
    /\ InGesture /\ obs.samples # <<>>
    /\ Len(obs.samples) < 1 + MaxMoves
    /\ \E e \in DragEvents :
        /\ Becomes(onCanvasMouseMove(Cur, e))
        /\ obs' = [obs EXCEPT !.op = "mousemove", !.steps = @ + 1,
                              !.phase = "drag",
                              !.samples = Append(@, getCanvasCoordinates(Cur, e))]

InitDrag == Starts(SessionStart) /\ obs = ObsStart("drag")

NextDrag ==
    \/ DragColorPicked
    \/ DragFillSelected
    \/ DragGroundDown
    \/ DragGroundUp
    \/ DragColorChosen
    \/ DragToolChosen
    \/ DragDown
    \/ DragResumed
    \/ DragMoved

SpecDrag == InitDrag /\ [][NextDrag]_vars

RECURSIVE StrokePath(_)
\* The first sample, then for each later sample that differs from the one
\* before it the interpolated line from that one, without its first cell
StrokePath(samples) ==
    IF Len(samples) = 1 THEN <<samples[1]>>
    ELSE LET n == Len(samples)
             last == samples[n - 1]
             sampled == samples[n]
             front == StrokePath(SubSeq(samples, 1, n - 1))
         IN  IF sampled = last THEN front
             ELSE front \o Tail(LineCells(last.row, last.col,
                                          sampled.row, sampled.col))

\* The samples occur in the path in their order of arrival, from position
\* `from` on
RECURSIVE VisitsInOrder(_, _, _)
VisitsInOrder(path, samples, from) ==
    IF samples = <<>> THEN TRUE
    ELSE \E i \in from..Len(path) :
            /\ path[i] = Head(samples)
            /\ VisitsInOrder(path, Tail(samples), i)

\* C24: in a pencil or eraser drag, after every move with the button held
\* lastDrawnPos is the sampled cell, and the cells stamped since the gesture
\* began are the first sample followed by the lines interpolated from each
\* sample to the next one that differs from it (a repeated sample stamps
\* nothing, a first sample with no last cell stamps that one cell): an
\* 8-connected path through all sampled cells in their order of arrival.
C24_StrokeIsPath ==
    (InGesture /\ obs.samples # <<>>) =>
        LET path == StrokePath(obs.samples)
            color == IF obs.tool = "eraser" THEN WHITE ELSE currentColor
        IN  /\ lastDrawnPos = obs.samples[Len(obs.samples)]
            /\ isDrawing
            /\ PaintedOver(obs.before, { path[i] : i \in 1..Len(path) }, color)
            /\ path[1] = obs.samples[1]
            /\ path[Len(path)] = obs.samples[Len(obs.samples)]
            /\ \A i \in 1..(Len(path) - 1) :
                /\ Abs(path[i + 1].row - path[i].row) <= 1
                /\ Abs(path[i + 1].col - path[i].col) <= 1
                /\ path[i + 1] # path[i]
            /\ VisitsInOrder(path, obs.samples, 1)

\* C24 witness: a drag that began with a move (no last cell), saw the same
\* cell sampled twice and then another cell, and painted more cells than it
\* sampled.
C24_Witness ==
    /\ InGesture /\ Len(obs.samples) = 3
    /\ obs.stage = "resumed"
    /\ obs.samples[1] = obs.samples[2]
    /\ obs.samples[3] # obs.samples[2]
    /\ Cardinality(ChangedCells(obs.before.grid, grid)) > 2

-----------------------------------------------------------------------------
(* The dimensions of the grid and of the history entries (resize session) *)

\* g has h rows of w cells, each holding white or a colour that was used
IsGridOf(g, h, w) ==
    /\ DOMAIN g = 0..(h - 1)
    /\ \A r \in 0..(h - 1) :
        /\ DOMAIN g[r] = 0..(w - 1)
        /\ \A c \in 0..(w - 1) : g[r][c] \in {WHITE} \cup Range(colorHistory)

\* C25: gridWidth = gridHeight, both from MIN_GRID_SIZE to MAX_GRID_SIZE;
\* the grid has gridHeight rows of gridWidth cells, each holding a colour;
\* every history entry has the same dimensions, and so has the grid an undo
\* or a redo would install, also after a resize.
C25_SquareGridAndEntries ==
    /\ gridWidth = gridHeight
    /\ gridWidth \in MIN_GRID_SIZE..MAX_GRID_SIZE
    /\ IsGridOf(grid, gridHeight, gridWidth)
    /\ \A i \in 1..Len(history) : IsGridOf(history[i], gridHeight, gridWidth)
    /\ IsGridOf(undo(Cur).grid, gridHeight, gridWidth)
    /\ IsGridOf(redo(Cur).grid, gridHeight, gridWidth)

\* C25 witness: after a resize from a full history stack to another size and
\* a pencil click, an undo has installed the blank grid of the new size.
C25_Witness ==
    /\ obs.stage = "reverted"
    /\ Len(obs.before.history) = MAX_HISTORY
    /\ gridWidth # obs.before.gridWidth
    /\ Len(history) = 2 /\ historyIndex = 0
    /\ grid = history[1] /\ grid # history[2]

-----------------------------------------------------------------------------
(* The clear session: from a fresh session or one whose history stack is    *)
(* full, perhaps after an undo or with a pencil stroke begun and the button *)
(* still held, Clear is activated and the dialog confirmed or cancelled;    *)
(* then an undo and a redo                                                  *)

ClearWarmUp ==
    /\ obs.stage = "prior" /\ obs.warm < MAX_HISTORY - 1
    /\ LET cell == CellNumber(Cur, obs.warm)
       IN  Becomes(Click(Cur, EventAt(Cur, cell.row, cell.col, 1)))
    /\ obs' = [obs EXCEPT !.op = "click", !.warm = @ + 1]

ClearAfterUndo ==
    /\ obs.stage = "prior" /\ obs.warm \in WarmUpClicks
    /\ Becomes(undo(Cur))
    /\ obs' = [obs EXCEPT !.op = "undo", !.stage = "undone"]

\* A mousedown of the pencil on the canvas; the button stays held
ClearStrokeBegun ==
    /\ obs.stage = "prior" /\ obs.warm \in WarmUpClicks
    /\ \E e \in MouseEvents(PointerPositions, 1) :
            Becomes(onCanvasMouseDown(Cur, e))
    /\ obs' = [obs EXCEPT !.op = "mousedown", !.stage = "stroke"]

\* The Clear button activated: by a click or, with the button's focus, from
\* the keyboard
ClearOpened ==
    /\ obs.stage \in {"prior", "undone", "stroke"} /\ obs.warm \in WarmUpClicks
    /\ Becomes(clearGrid(Cur))
    /\ obs' = [obs EXCEPT !.op = "clearGrid", !.stage = "asked"]

ClearConfirmed ==
    /\ obs.stage = "asked"
    /\ Becomes(confirmDialog(Cur))
    /\ obs' = [obs EXCEPT !.op = "confirmDialog", !.stage = "done",
                          !.before = Snapshot]

\* The Cancel button or a click on the overlay
ClearCancelled ==
    /\ obs.stage = "asked"
    /\ Becomes(cancelDialog(Cur))
    /\ obs' = [obs EXCEPT !.op = "cancelDialog", !.stage = "done",
                          !.before = Snapshot]

ClearUndone ==
    /\ obs.stage = "done"
    /\ Becomes(undo(Cur))
    /\ obs' = [obs EXCEPT !.stage = "reverted"]

ClearRedone ==
    /\ obs.stage = "reverted"
    /\ Becomes(redo(Cur))
    /\ obs' = [obs EXCEPT !.stage = "restored"]

InitClear == Starts(SessionStart) /\ obs = ObsStart("prior")

NextClear ==
    \/ ClearWarmUp
    \/ ClearAfterUndo
    \/ ClearStrokeBegun
    \/ ClearOpened
    \/ ClearConfirmed
    \/ ClearCancelled
    \/ ClearUndone
    \/ ClearRedone

SpecClear == InitClear /\ [][NextClear]_vars

\* C26: when the Clear dialog has been confirmed every cell is white, the
\* history stack has exactly one entry more than it kept, that entry being
\* the white grid, and one undo gives the grid as it was before the
\* confirmation; when it has been cancelled grid, history and historyIndex
\* are as they were; in both cases the dialog is closed and its callback
\* cleared.
C26_ClearOnConfirmation ==
    /\ (obs.stage = "done" /\ obs.op = "confirmDialog") =>
        /\ \A r \in 0..(gridHeight - 1), c \in 0..(gridWidth - 1) :
                grid[r][c] = WHITE
        /\ RecordedOn(obs.before)
        /\ undo(Cur).grid = obs.before.grid
    /\ (obs.stage = "done" /\ obs.op = "cancelDialog") =>
        /\ grid = obs.before.grid
        /\ history = obs.before.history
        /\ historyIndex = obs.before.historyIndex
    /\ obs.stage = "done" => (~dialogVisible /\ dialogCallback = "null")

=============================================================================
